---- MODULE Spec2Model ----
(***************************************************************************)
(* Model of main.py: a FastAPI application object `app` built with the     *)
(* framework's default arguments, with three GET routes registered on it:   *)
(* read_root (a plain function), readiness and health (coroutines).         *)
(*                                                                          *)
(* What `FastAPI()` and `@app.get` do is the framework's: the model takes   *)
(* from it the routes the application object registers for itself (the     *)
(* schema and the documentation pages), the router's matching by path and  *)
(* method with its 405, trailing-slash redirect and 404 outcomes, the JSON *)
(* rendering of a handler's return value, and the schema being generated   *)
(* once and kept on the application object.  The capacity of the worker    *)
(* thread pool that runs plain-function handlers is not modelled.          *)
(*                                                                          *)
(* A path is the sequence of its segments after the leading slash, that is  *)
(* path.split("/")[1:] : "/" is <<"">>, "/ready" is <<"ready">>, "/ready/"  *)
(* is <<"ready", "">>.  A JSON object is the sequence of its (key, value)   *)
(* pairs.  The rocket of the greeting is written by its code point.         *)
(***************************************************************************)
EXTENDS Naturals, Sequences, FiniteSets

\* ------------------------------------------------------------------ bounds
\* requests received in one run
MaxRequests == 3

\* requests under way at the same time
MaxInFlight == 2

\* requests received in one run of the fair specification
MaxLive == 2

\* ------------------------------------------------------------------ inputs
Methods == {"GET", "POST", "HEAD"}

RootPath == <<"">>
ReadyPath == <<"ready">>
HealthPath == <<"health">>
OpenapiPath == <<"openapi.json">>
DocsPath == <<"docs">>
OAuth2RedirectPath == <<"docs", "oauth2-redirect">>
RedocPath == <<"redoc">>

Paths ==
  { RootPath, ReadyPath, HealthPath, OpenapiPath, DocsPath,
    <<"ready", "">>, <<"nonexistent">> }

\* ------------------------------------------------------- handler payloads
read_root_plain == << <<"message", "Hello World">> >>

read_root == << <<"message", "Hello from FastAPI on Minikube U+1F680">> >>

readiness_ready == << <<"status", "ready">> >>

readiness == << <<"status", "ok">> >>

health_healthy == << <<"status", "healthy">> >>

health == << <<"status", "ok">> >>

\* --------------------------------------------------------------- responses
NoResponse == [status |-> 0, content_type |-> "", body |-> << >>]

JSONResponse(status, content) ==
  [status |-> status, content_type |-> "application/json", body |-> content]

HTMLResponse(page) ==
  [status |-> 200, content_type |-> "text/html; charset=utf-8",
   body |-> << <<"html", page>> >>]

RedirectResponse ==
  [status |-> 307, content_type |-> "", body |-> << >>]

PlainTextResponse(status, detail) ==
  [status |-> status, content_type |-> "text/plain; charset=utf-8",
   body |-> << <<"detail", detail>> >>]

http_exception_handler(status, detail) ==
  JSONResponse(status, << <<"detail", detail>> >>)

\* ------------------------------------------------------------- route table
APIRoute_head(path, endpoint) ==
  [path |-> path, methods |-> {"GET", "HEAD"}, endpoint |-> endpoint,
   include_in_schema |-> TRUE]

APIRoute(path, endpoint) ==
  [path |-> path, methods |-> {"GET"}, endpoint |-> endpoint,
   include_in_schema |-> TRUE]

StarletteRoute(path, endpoint) ==
  [path |-> path, methods |-> {"GET", "HEAD"}, endpoint |-> endpoint,
   include_in_schema |-> FALSE]

setup ==
  << StarletteRoute(OpenapiPath, "openapi"),
     StarletteRoute(DocsPath, "swagger_ui_html"),
     StarletteRoute(OAuth2RedirectPath, "swagger_ui_redirect"),
     StarletteRoute(RedocPath, "redoc_html") >>

app ==
  setup \o << APIRoute(RootPath, "read_root"),
              APIRoute(ReadyPath, "readiness"),
              APIRoute(HealthPath, "health") >>

\* ---------------------------------------------------------------- routing
matches_prefix(route, method, path) ==
  IF \/ Len(path) < Len(route.path)
     \/ SubSeq(path, 1, Len(route.path)) # route.path
  THEN "NONE"
  ELSE IF method \in route.methods THEN "FULL"
  ELSE "PARTIAL"

matches(route, method, path) ==
  IF route.path # path THEN "NONE"
  ELSE IF method \in route.methods THEN "FULL"
  ELSE "PARTIAL"

RECURSIVE rstrip(_)
rstrip(path) ==
  IF path # << >> /\ path[Len(path)] = ""
  THEN rstrip(SubSeq(path, 1, Len(path) - 1))
  ELSE path

redirect_slashes(path) ==
  IF path[Len(path)] = "" THEN rstrip(path) ELSE Append(path, "")

First(S) == CHOOSE i \in S : \A j \in S : i <= j

\* The outcome of Router.app for one request: the endpoint of the first
\* route that matches path and method; failing that 405 for the first route
\* that matches the path alone; failing that a redirect when the path with
\* its trailing slash toggled matches a route; failing that 404.
Router(rs, method, path) ==
  LET full == {i \in DOMAIN rs : matches(rs[i], method, path) = "FULL"}
      partial == {i \in DOMAIN rs : matches(rs[i], method, path) = "PARTIAL"}
      redirect == {i \in DOMAIN rs :
                     matches(rs[i], method, redirect_slashes(path)) # "NONE"}
  IN  IF full # {}
      THEN [endpoint |-> rs[First(full)].endpoint, response |-> NoResponse]
      ELSE IF partial # {}
      THEN [endpoint |-> "",
            response |-> http_exception_handler(405, "Method Not Allowed")]
      ELSE IF path # RootPath /\ redirect # {}
      THEN [endpoint |-> "", response |-> RedirectResponse]
      ELSE [endpoint |-> "",
            response |-> http_exception_handler(404, "Not Found")]

\* ---------------------------------------------------------- serialisation
jsonable_encoder(content) ==
  [i \in DOMAIN content |-> <<content[i][1], content[i][2]>>]

serialize_response(content) ==
  JSONResponse(200, jsonable_encoder(content))

get_openapi(rs) ==
  LET shown == SelectSeq(rs, LAMBDA r : r.include_in_schema)
  IN  << <<"title", "FastAPI">>, <<"version", "0.1.0">> >>
        \o [i \in DOMAIN shown |-> <<"operation", shown[i].endpoint>>]

VARIABLES routes, openapi_schema, requests

vars == <<routes, openapi_schema, requests>>

Init ==
  /\ routes = app
  /\ openapi_schema = << >>
  /\ requests = << >>

\* ----------------------------------------------------------------- actions
\* A request reaches the application.
receive(method, path) ==
  /\ Len(requests) < MaxRequests
  /\ Cardinality({i \in DOMAIN requests : requests[i].pc # "done"})
       < MaxInFlight
  /\ requests' = Append(requests,
       [method |-> method, path |-> path, pc |-> "received",
        endpoint |-> "", response |-> NoResponse, sent |-> 0])
  /\ UNCHANGED <<routes, openapi_schema>>

dispatch_shared(i) ==
  /\ requests[i].pc = "received"
  /\ LET last == requests[Len(requests)]
         r == Router(routes, last.method, last.path)
     IN  requests' = [requests EXCEPT
           ![i].endpoint = r.endpoint,
           ![i].response = r.response,
           ![i].pc = IF r.endpoint = "" THEN "responding" ELSE "matched"]
  /\ UNCHANGED <<routes, openapi_schema>>

\* The router picks the endpoint, or answers the request itself.
dispatch(i) ==
  /\ requests[i].pc = "received"
  /\ LET r == Router(routes, requests[i].method, requests[i].path)
     IN  requests' = [requests EXCEPT
           ![i].endpoint = r.endpoint,
           ![i].response = r.response,
           ![i].pc = IF r.endpoint = "" THEN "responding" ELSE "matched"]
  /\ UNCHANGED <<routes, openapi_schema>>

respond(i, response) ==
  requests' = [requests EXCEPT ![i].response = response,
                               ![i].pc = "responding"]

call_read_root_locked(i) ==
  /\ requests[i].pc = "matched"
  /\ requests[i].endpoint = "read_root"
  /\ \A j \in DOMAIN requests \ {i} : requests[j].pc # "matched"
  /\ respond(i, serialize_response(read_root))
  /\ UNCHANGED <<routes, openapi_schema>>

\* read_root is a plain function: it runs on a worker thread.
call_read_root(i) ==
  /\ requests[i].pc = "matched"
  /\ requests[i].endpoint = "read_root"
  /\ respond(i, serialize_response(read_root))
  /\ UNCHANGED <<routes, openapi_schema>>

\* readiness and health are coroutines: they run on the event loop and
\* await nothing.
call_readiness(i) ==
  /\ requests[i].pc = "matched"
  /\ requests[i].endpoint = "readiness"
  /\ respond(i, serialize_response(readiness))
  /\ UNCHANGED <<routes, openapi_schema>>

call_health(i) ==
  /\ requests[i].pc = "matched"
  /\ requests[i].endpoint = "health"
  /\ respond(i, serialize_response(health))
  /\ UNCHANGED <<routes, openapi_schema>>

call_openapi_stale(i) ==
  /\ requests[i].pc = "matched"
  /\ requests[i].endpoint = "openapi"
  /\ openapi_schema' =
       IF openapi_schema = << >> THEN get_openapi(routes) ELSE openapi_schema
  /\ respond(i, JSONResponse(200, openapi_schema))
  /\ UNCHANGED routes

call_openapi_regen(i) ==
  /\ requests[i].pc = "matched"
  /\ requests[i].endpoint = "openapi"
  /\ openapi_schema' =
       IF openapi_schema = << >> THEN get_openapi(routes) ELSE << >>
  /\ respond(i, JSONResponse(200, get_openapi(routes)))
  /\ UNCHANGED routes

\* The schema endpoint the application object registers for itself: the
\* schema is generated on first use and kept.
call_openapi(i) ==
  /\ requests[i].pc = "matched"
  /\ requests[i].endpoint = "openapi"
  /\ openapi_schema' =
       IF openapi_schema = << >> THEN get_openapi(routes) ELSE openapi_schema
  /\ respond(i, JSONResponse(200, openapi_schema'))
  /\ UNCHANGED routes

\* The documentation pages the application object registers for itself.
call_docs(i) ==
  /\ requests[i].pc = "matched"
  /\ requests[i].endpoint \in
       {"swagger_ui_html", "swagger_ui_redirect", "redoc_html"}
  /\ respond(i, HTMLResponse(requests[i].endpoint))
  /\ UNCHANGED <<routes, openapi_schema>>

\* The response goes out and the request is over.
send(i) ==
  /\ requests[i].pc = "responding"
  /\ requests' = [requests EXCEPT ![i].pc = "done",
                                  ![i].sent = requests[i].sent + 1]
  /\ UNCHANGED <<routes, openapi_schema>>

step(i) ==
  /\ i \in DOMAIN requests
  /\ \/ dispatch(i)
     \/ call_read_root(i)
     \/ call_readiness(i)
     \/ call_health(i)
     \/ call_openapi(i)
     \/ call_docs(i)
     \/ send(i)

Next ==
  \/ \E m \in Methods, p \in Paths : receive(m, p)
  \/ \E i \in 1..MaxRequests : step(i)

Spec == Init /\ [][Next]_vars

\* Every request is a task of its own on the event loop (or a job on a
\* worker thread), and a task that can run is run.
FairNext ==
  \/ \E m \in Methods, p \in Paths :
       Len(requests) < MaxLive /\ receive(m, p)
  \/ \E i \in 1..MaxLive : step(i)

FairSpec ==
  Init /\ [][FairNext]_vars /\ \A i \in 1..MaxLive : WF_vars(step(i))

\* ------------------------------------------------------------- vocabulary
Answered(i) == requests[i].pc \in {"responding", "done"}

Is(i, method, path) ==
  requests[i].method = method /\ requests[i].path = path

DefinedPaths == { <<"">>, <<"ready">>, <<"health">> }

FrameworkPaths ==
  { <<"openapi.json">>, <<"docs">>, <<"docs", "oauth2-redirect">>,
    <<"redoc">> }

Ok2xx(status) == status >= 200 /\ status < 300

\* ------------------------------------------------------------------ C1
\* C1: every answer to GET / is status 200 with the JSON body
\* {"message": "Hello from FastAPI on Minikube <rocket>"}, whatever was
\* handled before.
C1_RootGreeting ==
  \A i \in DOMAIN requests :
    (Answered(i) /\ Is(i, "GET", <<"">>)) =>
      /\ requests[i].response.status = 200
      /\ requests[i].response.body =
           << <<"message", "Hello from FastAPI on Minikube U+1F680">> >>

C1_Witness ==
  \E i, j \in DOMAIN requests :
    /\ j < i
    /\ requests[j].pc = "done" /\ ~Is(j, "GET", <<"">>)
    /\ requests[i].pc = "done" /\ Is(i, "GET", <<"">>)

\* ------------------------------------------------------------------ C2
\* C2: every answer to GET /ready is status 200 with the JSON body
\* {"status": "ok"}, whatever was handled before.
C2_Ready ==
  \A i \in DOMAIN requests :
    (Answered(i) /\ Is(i, "GET", <<"ready">>)) =>
      /\ requests[i].response.status = 200
      /\ requests[i].response.body = << <<"status", "ok">> >>

C2_Witness ==
  \E i, j \in DOMAIN requests :
    /\ j < i
    /\ requests[j].pc = "done" /\ ~Is(j, "GET", <<"ready">>)
    /\ requests[i].pc = "done" /\ Is(i, "GET", <<"ready">>)

\* ------------------------------------------------------------------ C3
\* C3: every answer to GET /health is status 200 with the JSON body
\* {"status": "ok"}, whatever was handled before.
C3_Health ==
  \A i \in DOMAIN requests :
    (Answered(i) /\ Is(i, "GET", <<"health">>)) =>
      /\ requests[i].response.status = 200
      /\ requests[i].response.body = << <<"status", "ok">> >>

C3_Witness ==
  \E i, j \in DOMAIN requests :
    /\ j < i
    /\ requests[j].pc = "done" /\ ~Is(j, "GET", <<"health">>)
    /\ requests[i].pc = "done" /\ Is(i, "GET", <<"health">>)

C5_MethodNotAllowed ==
  \A i \in DOMAIN requests :
    (Answered(i) /\ requests[i].path \in DefinedPaths
                 /\ requests[i].method # "GET") =>
      /\ requests[i].response.status = 405
      /\ ~Ok2xx(requests[i].response.status)
      /\ requests[i].response.body \notin
           { << <<"message", "Hello from FastAPI on Minikube U+1F680">> >>,
             << <<"status", "ok">> >> }

C5_Witness ==
  \E i, j \in DOMAIN requests :
    /\ i # j
    /\ requests[i].pc = "done" /\ Is(i, "HEAD", <<"">>)
    /\ requests[j].pc = "done" /\ Is(j, "POST", <<"health">>)

\* ------------------------------------------------------------------ C6
\* C6 as stated: every response carries Content-Type application/json.
C6_AlwaysJson ==
  \A i \in DOMAIN requests :
    Answered(i) => requests[i].response.content_type = "application/json"

\* C6 as amended: every response to a request for /, /ready or /health
\* (whatever the method), every response of /openapi.json and every 404 and
\* 405 response carries Content-Type application/json; the documentation
\* pages carry text/html and a trailing-slash redirect carries none.
C6_JsonWhereJson ==
  \A i \in DOMAIN requests :
    Answered(i) =>
      LET r == requests[i].response
      IN  /\ ( \/ requests[i].path \in DefinedPaths \cup { <<"openapi.json">> }
               \/ r.status \in {404, 405} )
             => r.content_type = "application/json"
          /\ r.status = 307 => r.content_type = ""
          /\ (Ok2xx(r.status) /\ requests[i].path = <<"docs">>)
             => r.content_type = "text/html; charset=utf-8"

C6_Witness ==
  \E i, j, k \in DOMAIN requests :
    /\ requests[i].pc = "done" /\ requests[i].response.status = 404
    /\ j # i /\ requests[j].pc = "done" /\ requests[j].response.status = 405
    /\ k \notin {i, j} /\ requests[k].pc = "done"
    /\ Is(k, "GET", <<"docs">>)

\* ------------------------------------------------------------------ C7
\* C7: two requests with the same method and path get the same status and
\* the same body, whatever was handled between them.
C7_Stable ==
  \A i, j \in DOMAIN requests :
    ( /\ Answered(i) /\ Answered(j)
      /\ requests[i].method = requests[j].method
      /\ requests[i].path = requests[j].path ) =>
      /\ requests[i].response.status = requests[j].response.status
      /\ requests[i].response.body = requests[j].response.body

C7_Witness ==
  \E i, j, k \in DOMAIN requests :
    /\ i < k /\ k < j
    /\ requests[i].pc = "done" /\ requests[j].pc = "done"
    /\ requests[k].pc = "done"
    /\ requests[i].method = requests[j].method
    /\ requests[i].path = requests[j].path
    /\ requests[k].path # requests[i].path
    /\ openapi_schema # << >>

\* ------------------------------------------------------------------ C8
\* C8 as stated: the service holds no mutable state; handling a request
\* changes neither the registered routes nor anything else the application
\* keeps in memory.
C8_NoMutableState ==
  [][routes' = routes /\ openapi_schema' = openapi_schema]_vars

\* C8 as amended: handling a request never changes the registered routes or
\* their payloads, and handling a request for /, /ready or /health, for an
\* unmapped path or with an unsupported method writes nothing; the one thing
\* the application writes is the OpenAPI schema, which the first request
\* served by /openapi.json generates and which never changes afterwards.
C8_OnlySchemaCache ==
  [][ /\ routes' = routes
      /\ openapi_schema # << >> => openapi_schema' = openapi_schema
      /\ openapi_schema' # openapi_schema =>
           \E i \in DOMAIN requests :
             /\ requests[i].path = <<"openapi.json">>
             /\ requests[i].method \in {"GET", "HEAD"}
             /\ requests[i].pc = "matched"
             /\ requests'[i].pc = "responding" ]_vars

C8_Witness ==
  \E i, j, k \in DOMAIN requests :
    /\ i < j /\ j < k
    /\ requests[i].pc = "done" /\ requests[i].path = <<"openapi.json">>
    /\ requests[j].pc = "done" /\ requests[j].path = <<"openapi.json">>
    /\ requests[k].pc = "done" /\ requests[k].path \in DefinedPaths
    /\ openapi_schema # << >>
    /\ routes = app

\* ------------------------------------------------------------------ C9
\* The response to a request handled alone by a freshly built application.
Alone(method, path) ==
  LET r == Router(app, method, path)
  IN  CASE r.endpoint = "" -> r.response
        [] r.endpoint = "read_root" -> serialize_response(read_root)
        [] r.endpoint = "readiness" -> serialize_response(readiness)
        [] r.endpoint = "health" -> serialize_response(health)
        [] r.endpoint = "openapi" -> JSONResponse(200, get_openapi(app))
        [] OTHER -> HTMLResponse(r.endpoint)

C10_Completes ==
  /\ \A i \in 1..MaxLive :
       ( /\ i \in DOMAIN requests
         /\ requests[i].method = "GET"
         /\ requests[i].path \in DefinedPaths )
       ~> ( /\ i \in DOMAIN requests
            /\ requests[i].pc = "done"
            /\ requests[i].sent = 1
            /\ requests[i].response.status = 200 )
  /\ [](\A i \in DOMAIN requests :
          /\ requests[i].sent <= 1
          /\ requests[i].pc = "done" => requests[i].sent = 1)

C10_Witness ==
  \E i, j \in DOMAIN requests :
    /\ i # j
    /\ requests[i].pc = "done" /\ Is(i, "GET", <<"">>)
    /\ requests[i].sent = 1
    /\ requests[j].pc = "done" /\ requests[j].method = "GET"
    /\ requests[j].path \in { <<"ready">>, <<"health">> }
====
